---- MODULE Spec2Model ----
(***************************************************************************)
(* Model of bin/publish.py, the release driver of cch137/store:            *)
(*                                                                         *)
(*   4  shutil.rmtree('dist', ignore_errors=True)                          *)
(*   5  os.system('tsc')                                                   *)
(*   6  shutil.copyfile('package.json', 'dist/package.json')               *)
(*   8  os.system('cd dist/ && npm publish --access public')               *)
(*                                                                         *)
(* The state is the part of the filesystem the script touches (the         *)
(* project-root package.json and the dist directory), the script's         *)
(* position, and the child process os.system is waiting for.  The external *)
(* tools are nondeterministic: tsc may emit any files into dist and exit   *)
(* with any status, npm may exit with any status.                          *)
(***************************************************************************)
EXTENDS Naturals, Sequences, FiniteSets

VARIABLES
    pc,         \* line the script is at: idle, rmtree, tsc, copyfile, publish, done, halted
    child,      \* child process os.system waits for: none, tsc, sh, sh_in_dist, npm
    manifest,   \* content of ./package.json, or Absent
    distExists, \* dist is a directory
    distFiles,  \* entries of dist: name -> [data, locked, run, by]
    run,        \* number of the current run of the script
    steps,      \* steps begun in the current run, in order
    rmErr,      \* error rmtree hit in the current run: none, ENOENT, EACCES
    exc,        \* uncaught exception that ended the current run, or none
    tscStatus,  \* what os.system('tsc') returned in the current run, NoStatus before
    pubStatus,  \* exit status of the publish shell in the current run
    npmRuns,    \* invocations of npm publish: [run, cwd]
    manifest0,  \* ./package.json when the current run started
    prev        \* the previous run: [completed, copy, manifest]

vars == <<pc, child, manifest, distExists, distFiles, run, steps, rmErr, exc,
          tscStatus, pubStatus, npmRuns, manifest0, prev>>

\* Bound of the model: how many times the script is run in succession.
MaxRuns == 2

\* File contents and file names the model draws from.
Contents == {"v1", "v2"}
Absent == "absent"
Manifest == "package.json"
Names == {Manifest, "index.js"}

\* Exit statuses of a child process, as os.system returns them.
ExitCodes == {"0", "1"}
NoStatus == "none"

AllSteps == <<"rmtree", "tsc", "copyfile", "publish">>

\* A file that was in dist before the first run.  A locked file can be
\* neither deleted nor overwritten (read-only parent, immutable flag, a file
\* held open on Windows).
OldFiles == [data : Contents, locked : BOOLEAN, run : {0}, by : {"pre"}]

NoFiles == [n \in {} |-> [data |-> "v1", locked |-> FALSE, run |-> 0, by |-> "pre"]]

NoPrev == [completed |-> FALSE, copy |-> Absent, manifest |-> Absent]

WriteFile(files, n, rec) ==
    [m \in (DOMAIN files) \cup {n} |-> IF m = n THEN rec ELSE files[m]]

Restrict(files, keep) == [m \in keep |-> files[m]]

Init ==
    /\ pc = "idle"
    /\ child = "none"
    /\ manifest \in Contents \cup {Absent}
    /\ distExists \in BOOLEAN
    /\ \E S \in SUBSET Names : distFiles \in [S -> OldFiles]
    /\ (~distExists) => (DOMAIN distFiles = {})
    /\ run = 0
    /\ steps = <<>>
    /\ rmErr = "none"
    /\ exc = "none"
    /\ tscStatus = NoStatus
    /\ pubStatus = NoStatus
    /\ npmRuns = {}
    /\ manifest0 = manifest
    /\ prev = NoPrev

\* The run reached the end of the script and npm publish was executed in it.
Completed ==
    /\ pc = "done"
    /\ steps = AllSteps
    /\ \E inv \in npmRuns : inv.run = run

\* The interpreter starts the script (lines 1-2: the imports).
Start ==
    /\ pc \in {"idle", "done", "halted"}
    /\ run < MaxRuns
    /\ pc' = "rmtree"
    /\ run' = run + 1
    /\ steps' = <<>>
    /\ rmErr' = "none"
    /\ exc' = "none"
    /\ tscStatus' = NoStatus
    /\ pubStatus' = NoStatus
    /\ manifest0' = manifest
    /\ prev' = IF run = 0 THEN NoPrev
               ELSE [completed |-> Completed,
                     copy |-> IF distExists /\ Manifest \in DOMAIN distFiles
                              THEN distFiles[Manifest].data ELSE Absent,
                     manifest |-> manifest0]
    /\ UNCHANGED <<child, manifest, distExists, distFiles, npmRuns>>

\* ignore_errors=True (line 4): rmtree swallows every error it hits.
IgnoreErrors_Off == FALSE

IgnoreErrors == TRUE

\* Where the script goes when rmtree hit an error.
PcOnRmtreeError == IF IgnoreErrors THEN "tsc" ELSE "halted"

\* Line 4: shutil.rmtree('dist', ignore_errors=True).  Every entry that can
\* be deleted is deleted; an entry that cannot stays, and then so does dist.
Rmtree ==
    /\ pc = "rmtree"
    /\ steps' = Append(steps, "rmtree")
    /\ LET kept == {n \in DOMAIN distFiles : distFiles[n].locked} IN
       IF ~distExists
       THEN /\ rmErr' = "ENOENT"
            /\ pc' = PcOnRmtreeError
            /\ exc' = IF IgnoreErrors THEN "none" ELSE "FileNotFoundError"
            /\ UNCHANGED <<distExists, distFiles>>
       ELSE IF kept = {}
       THEN /\ rmErr' = "none"
            /\ pc' = "tsc"
            /\ distExists' = FALSE
            /\ distFiles' = NoFiles
            /\ UNCHANGED exc
       ELSE /\ rmErr' = "EACCES"
            /\ pc' = PcOnRmtreeError
            /\ exc' = IF IgnoreErrors THEN "none" ELSE "PermissionError"
            /\ distExists' = TRUE
            /\ distFiles' = Restrict(distFiles, kept)
    /\ UNCHANGED <<child, manifest, run, tscStatus, pubStatus, npmRuns, manifest0, prev>>

NextLine(line) ==
    CASE line = "rmtree" -> "tsc"
      [] line = "tsc" -> "copyfile"
      [] line = "copyfile" -> "publish"
      [] line = "publish" -> "done"
      [] OTHER -> line

\* os.system blocks: the script stays at the calling line until the child exits.
PcWhileChildRuns_NoWait(line) == NextLine(line)

PcWhileChildRuns(line) == line

\* os.system returns when the child has exited: the script goes on to the next line.
PcAfterChildExit(line) == IF pc = line THEN NextLine(line) ELSE pc

\* Line 5: os.system('tsc') starts the compiler.
SpawnTsc ==
    /\ pc = "tsc"
    /\ child = "none"
    /\ child' = "tsc"
    /\ steps' = Append(steps, "tsc")
    /\ pc' = PcWhileChildRuns("tsc")
    /\ UNCHANGED <<manifest, distExists, distFiles, run, rmErr, exc, tscStatus,
                   pubStatus, npmRuns, manifest0, prev>>

\* tsc emits one output file into dist, creating dist when it is missing.
\* It writes each name at most once per run and cannot replace a locked file.
TscEmit ==
    /\ child = "tsc"
    /\ \E n \in Names, c \in Contents :
          /\ n \in DOMAIN distFiles =>
                /\ ~distFiles[n].locked
                /\ ~(distFiles[n].run = run /\ distFiles[n].by = "tsc")
          /\ distExists' = TRUE
          /\ distFiles' = WriteFile(distFiles, n,
                             [data |-> c, locked |-> FALSE, run |-> run, by |-> "tsc"])
    /\ UNCHANGED <<pc, child, manifest, run, steps, rmErr, exc, tscStatus,
                   pubStatus, npmRuns, manifest0, prev>>

\* What the script does with the status os.system('tsc') returns: nothing.
PcAfterTsc_Checked(status) == IF status = "0" THEN PcAfterChildExit("tsc") ELSE "halted"

PcAfterTsc(status) == PcAfterChildExit("tsc")

\* tsc exits with some status and os.system('tsc') returns it.
TscExit ==
    /\ child = "tsc"
    /\ child' = "none"
    /\ \E s \in ExitCodes :
          /\ tscStatus' = s
          /\ pc' = PcAfterTsc(s)
    /\ UNCHANGED <<manifest, distExists, distFiles, run, steps, rmErr, exc,
                   pubStatus, npmRuns, manifest0, prev>>

\* The error shutil.copyfile raises, or none: the source is opened first,
\* then the destination is opened for writing.
CopyError ==
    IF manifest = Absent THEN "FileNotFoundError"
    ELSE IF ~distExists THEN "FileNotFoundError"
    ELSE IF Manifest \in DOMAIN distFiles /\ distFiles[Manifest].locked THEN "PermissionError"
    ELSE "none"

\* An exception nobody catches ends the script.
PcOnCopyError_Swallowed == "publish"

PcOnCopyError == "halted"

\* The bytes copyfile writes to the destination: those of the source,
\* replacing whatever the destination held.
CopiedData_NoClobber(src, files) ==
    IF Manifest \in DOMAIN files THEN files[Manifest].data ELSE src

CopiedData(src, files) == src

\* The source after the copy: copyfile leaves it alone.
SourceAfterCopy_Moved(src) == Absent

SourceAfterCopy(src) == src

\* Line 6: shutil.copyfile('package.json', 'dist/package.json').
CopyManifest ==
    /\ pc = "copyfile"
    /\ steps' = Append(steps, "copyfile")
    /\ IF CopyError # "none"
       THEN /\ exc' = CopyError
            /\ pc' = PcOnCopyError
            /\ UNCHANGED <<manifest, distFiles>>
       ELSE /\ distFiles' = WriteFile(distFiles, Manifest,
                               [data |-> CopiedData(manifest, distFiles),
                                locked |-> FALSE, run |-> run, by |-> "copyfile"])
            /\ manifest' = SourceAfterCopy(manifest)
            /\ pc' = "publish"
            /\ UNCHANGED exc
    /\ UNCHANGED <<child, distExists, run, rmErr, tscStatus, pubStatus, npmRuns,
                   manifest0, prev>>

\* Lines 8-11: os.system starts a shell on 'cd dist/ && npm publish --access public'.
\* The shell starts in the script's working directory, the project root.
SpawnPublish ==
    /\ pc = "publish"
    /\ child = "none"
    /\ child' = "sh"
    /\ steps' = Append(steps, "publish")
    /\ pc' = PcWhileChildRuns("publish")
    /\ UNCHANGED <<manifest, distExists, distFiles, run, rmErr, exc, tscStatus,
                   pubStatus, npmRuns, manifest0, prev>>

\* 'A && B': the shell runs B only when A succeeded.
AfterFailedCd_Semicolon == "sh_in_root"

AfterFailedCd == "exit"

\* The shell runs 'cd dist/'.
ShCd ==
    /\ child = "sh"
    /\ IF distExists
       THEN /\ child' = "sh_in_dist"
            /\ UNCHANGED <<pc, pubStatus>>
       ELSE IF AfterFailedCd = "exit"
       THEN /\ child' = "none"
            /\ pubStatus' = "1"
            /\ pc' = PcAfterChildExit("publish")
       ELSE /\ child' = AfterFailedCd
            /\ UNCHANGED <<pc, pubStatus>>
    /\ UNCHANGED <<manifest, distExists, distFiles, run, steps, rmErr, exc,
                   tscStatus, npmRuns, manifest0, prev>>

\* The shell runs 'npm publish --access public' in its working directory.
ShNpm ==
    /\ child \in {"sh_in_dist", "sh_in_root"}
    /\ child' = "npm"
    /\ npmRuns' = npmRuns \cup
          {[run |-> run, cwd |-> IF child = "sh_in_dist" THEN "dist" ELSE "root"]}
    /\ UNCHANGED <<pc, manifest, distExists, distFiles, run, steps, rmErr, exc,
                   tscStatus, pubStatus, manifest0, prev>>

\* npm exits, the shell exits with npm's status, and os.system returns it;
\* the script ignores it and ends.
NpmExit ==
    /\ child = "npm"
    /\ child' = "none"
    /\ pubStatus' \in ExitCodes
    /\ pc' = PcAfterChildExit("publish")
    /\ UNCHANGED <<manifest, distExists, distFiles, run, steps, rmErr, exc,
                   tscStatus, npmRuns, manifest0, prev>>

Next ==
    \/ Start
    \/ Rmtree
    \/ SpawnTsc
    \/ TscEmit
    \/ TscExit
    \/ CopyManifest
    \/ SpawnPublish
    \/ ShCd
    \/ ShNpm
    \/ NpmExit

Spec == Init /\ [][Next]_vars

\* Another process deletes dist after the copy and before the shell's cd:
\* the one way 'cd dist/' can fail once the copy has succeeded.
EnvRemoveDist ==
    /\ pc = "publish"
    /\ child \in {"none", "sh"}
    /\ distExists
    /\ distExists' = FALSE
    /\ distFiles' = NoFiles
    /\ UNCHANGED <<pc, child, manifest, run, steps, rmErr, exc, tscStatus,
                   pubStatus, npmRuns, manifest0, prev>>

NextEnv == Next \/ EnvRemoveDist

SpecEnv == Init /\ [][NextEnv]_vars

Range(seq) == {seq[i] : i \in 1..Len(seq)}

IsPrefix(a, b) == Len(a) <= Len(b) /\ \A i \in 1..Len(a) : a[i] = b[i]

NpmRanThisRun == \E inv \in npmRuns : inv.run = run

CopyInPlace ==
    /\ distExists
    /\ Manifest \in DOMAIN distFiles
    /\ distFiles[Manifest].by = "copyfile"
    /\ distFiles[Manifest].run = run

\* C1: the steps of a run begin in the order rmtree, tsc, copyfile, publish,
\* each at most once; while an external process runs the script stays at the
\* line that started it; and once the publish step has begun, the manifest
\* copy of this run is in place.
C1_StrictOrder ==
    /\ IsPrefix(steps, AllSteps)
    /\ child = "tsc" => pc = "tsc"
    /\ child \in {"sh", "sh_in_dist", "sh_in_root", "npm"} => pc = "publish"
    /\ pc = "tsc" => steps \in {<<"rmtree">>, <<"rmtree", "tsc">>}
    /\ pc = "copyfile" => steps = <<"rmtree", "tsc">>
    /\ pc = "publish" => Len(steps) >= 3
    /\ "publish" \in Range(steps) => CopyInPlace
    /\ NpmRanThisRun => "publish" \in Range(steps)

C1_Witness ==
    /\ pc = "done"
    /\ steps = AllSteps
    /\ run = MaxRuns
    /\ NpmRanThisRun

\* C2: when the copy step has been attempted and package.json is absent at
\* the project root, or dist does not exist, the run has halted at the copy
\* step with a file-not-found error and npm publish was not invoked in it.
C2_CopyFailureHalts ==
    ("copyfile" \in Range(steps) /\ (manifest = Absent \/ ~distExists)) =>
        /\ pc = "halted"
        /\ exc = "FileNotFoundError"
        /\ steps = <<"rmtree", "tsc", "copyfile">>
        /\ ~NpmRanThisRun

C2_Witness ==
    /\ pc = "halted"
    /\ "copyfile" \in Range(steps)
    /\ manifest # Absent
    /\ ~distExists

\* C3: when removing dist failed for a reason other than dist not existing,
\* the run has halted at the removal step and no later step has begun.
C3_RemovalFailureFatal ==
    rmErr = "EACCES" => (pc = "halted" /\ steps = <<"rmtree">>)

\* C4: after a completed run every entry of dist was written during that
\* run, by the build step or by the copy, and exactly one is the manifest copy.
C4_DistAllFresh ==
    Completed =>
        /\ \A n \in DOMAIN distFiles :
              /\ distFiles[n].run = run
              /\ distFiles[n].by \in {"tsc", "copyfile"}
        /\ Cardinality({n \in DOMAIN distFiles : distFiles[n].by = "copyfile"}) = 1

\* C5: after a completed run dist/package.json exists and holds the content
\* of the project-root package.json.
C5_CopyMatchesManifest ==
    Completed =>
        /\ manifest # Absent
        /\ distExists
        /\ Manifest \in DOMAIN distFiles
        /\ distFiles[Manifest].data = manifest

C5_Witness ==
    /\ Completed
    /\ distFiles[Manifest].data = manifest
    /\ "index.js" \in DOMAIN distFiles
    /\ distFiles["index.js"].by = "tsc"

\* C6: a removal step that finds no dist raises nothing, changes nothing on
\* the filesystem and leaves the script at the build step.
C6_RemoveAbsentIsNoop ==
    [][(pc = "rmtree" /\ ~distExists) =>
          /\ pc' = "tsc"
          /\ exc' = "none"
          /\ distExists' = distExists
          /\ distFiles' = distFiles
          /\ manifest' = manifest]_vars

C6_Witness ==
    /\ pc = "tsc"
    /\ child = "none"
    /\ rmErr = "ENOENT"
    /\ ~distExists

\* C7: the project-root package.json is what it was when the run started,
\* at every point of the run and after it, completed or halted.
C7_ManifestUntouched == manifest = manifest0

C7_Witness ==
    /\ pc = "done"
    /\ "copyfile" \in Range(steps)
    /\ manifest # Absent
    /\ manifest = manifest0

\* C8: when two runs in succession both complete and the project-root
\* package.json is the same in both, dist/package.json after the second run
\* equals dist/package.json after the first.
C8_SecondRunSameCopy ==
    (Completed /\ prev.completed /\ prev.manifest = manifest0) =>
        /\ Manifest \in DOMAIN distFiles
        /\ distFiles[Manifest].data = prev.copy

C8_Witness ==
    /\ Completed
    /\ prev.completed
    /\ prev.manifest = manifest0
    /\ distFiles[Manifest].data = prev.copy

\* A nonzero exit of tsc leaves the script at the copy step.
BuildExitNotGating ==
    (child = "tsc" /\ child' = "none" /\ tscStatus' # "0") => pc' = "copyfile"

CopyWritten ==
    /\ pc' = "publish"
    /\ Manifest \in DOMAIN distFiles'
    /\ distFiles'[Manifest].data = manifest

\* C9 as stated: after a nonzero build exit the copy is attempted, and
\* whenever dist exists at that point the copy succeeds and the script goes
\* on to publish.  Taken on the runs whose removal step left nothing behind,
\* so that a refutation does not rest on a failed removal.
C9_Original ==
    [][/\ BuildExitNotGating
       /\ (pc = "copyfile" /\ tscStatus # "0" /\ distExists /\ rmErr # "EACCES")
             => CopyWritten]_vars

\* C9 amended: after a nonzero build exit the copy is attempted, and whenever
\* at that point dist exists, the project-root package.json exists and
\* dist/package.json is not write-protected, the copy succeeds and the script
\* goes on to publish.
C9_BuildExitIgnored ==
    [][/\ BuildExitNotGating
       /\ (/\ pc = "copyfile"
           /\ tscStatus # "0"
           /\ distExists
           /\ manifest # Absent
           /\ ~(Manifest \in DOMAIN distFiles /\ distFiles[Manifest].locked))
          => CopyWritten]_vars

C9_Witness ==
    /\ tscStatus = "1"
    /\ NpmRanThisRun
    /\ CopyInPlace

\* C10: npm publish is only ever run with dist as its working directory;
\* when 'cd dist/' fails the shell exits without running it.
C10_PublishOnlyInDist ==
    /\ child # "sh_in_root"
    /\ \A inv \in npmRuns : inv.cwd = "dist"
    /\ (pc = "done" /\ ~distExists) => (pubStatus = "1" /\ ~NpmRanThisRun)

C10_Witness ==
    /\ pc = "done"
    /\ steps = AllSteps
    /\ pubStatus = "1"
    /\ ~NpmRanThisRun

====
